---- MODULE Spec2Model ----
(***************************************************************************)
(* LMSR market maker and collateral ledger of src/src/lib.rs.              *)
(*                                                                         *)
(* Numbers.  The program computes in f64.  TLA+ has no reals, so the two   *)
(* kinds of f64 quantity of the program are represented as follows.        *)
(*                                                                         *)
(*  - A plain number (an E.pow result, sum_of_exp, a price, max_price) is  *)
(*    a record [k, n, d, e]: k = "fin" is the value (n/d) * 2^e, with n    *)
(*    signed, n/d reduced and 1 <= |n|/d < 2 (zero is n = 0); k = "inf",   *)
(*    "-inf", "nan" are the f64 special values.                            *)
(*  - An amount (a share count, a collateral balance, a cost, a deposit)   *)
(*    is a record of the same shape: k = "ln" is the value                 *)
(*    b * ln((n/d) * 2^e), n > 0; k = "inf", "-inf", "nan" as above.  The  *)
(*    amounts of the model are thus the reals b * ln(X) with X a positive  *)
(*    rational, a dense subset of the reals: adding amounts multiplies     *)
(*    the X, comparing amounts compares the X, the amount 0 is X = 1, and  *)
(*    b * ln(x) and E.pow(q / b) convert between the two kinds with no     *)
(*    approximation.  b > 0 is the unit and does not appear otherwise.     *)
(*                                                                         *)
(* What is kept of f64: the special values and their arithmetic and        *)
(* comparisons, the exponent range (E.pow overflows to inf and underflows  *)
(* to 0), and absorption in a sum (x + y = x once y is below half an ulp   *)
(* of x).  What is not: the rounding of a finite result in its last bit,   *)
(* which is computed exactly here.  A sum whose exact value needs more     *)
(* bits than the model carries is "unrep"; the actions take no input that  *)
(* produces one.                                                           *)
(***************************************************************************)
EXTENDS Integers

VARIABLES outstanding_shares, portfolios, deposited, last, steps

vars == <<outstanding_shares, portfolios, deposited, last, steps>>

(* ------------------------------ bounds --------------------------------- *)
\* Number of operations in a run.
MaxSteps == 4
\* Largest numerator or denominator of an amount kept in the state.
MaxMant == 64
\* Largest exponent gap over which a sum of two plain numbers is exact here.
ExactGap == 8

(* --------------------------- f64 constants ----------------------------- *)
\* f64::MANTISSA_DIGITS
F64_MANTISSA_DIGITS == 53
\* f64::MAX_EXP: 2^1024 and above are +inf
F64_MAX_EXP == 1024
\* exponent of the least positive f64, 2^-1074
F64_MIN_SUBNORMAL_EXP == -1074

(* ------------------------- market parameters --------------------------- *)
num_outcomes == 2
Outcomes == 0 .. (num_outcomes - 1)
Address == {"A", "B"}

(* ------------------------------ numbers -------------------------------- *)
Abs(x) == IF x < 0 THEN -x ELSE x

RECURSIVE GCD(_, _)
GCD(a, b) == IF b = 0 THEN a ELSE GCD(b, a % b)

RECURSIVE Scale(_, _, _)
Scale(n, d, e) ==
    IF n >= 2 * d
    THEN IF n % 2 = 0 THEN Scale(n \div 2, d, e + 1) ELSE Scale(n, 2 * d, e + 1)
    ELSE IF n < d
    THEN IF d % 2 = 0 THEN Scale(n, d \div 2, e - 1) ELSE Scale(2 * n, d, e - 1)
    ELSE <<n, d, e>>

Special(kind) == [k |-> kind, n |-> 0, d |-> 1, e |-> 0]
NaN == Special("nan")
PosInf == Special("inf")
NegInf == Special("-inf")
Unrep == Special("unrep")

\* The record of kind `kind` for (n/d) * 2^e, d > 0.
Norm(kind, n, d, e) ==
    IF n = 0 THEN [k |-> kind, n |-> 0, d |-> 1, e |-> 0]
    ELSE LET g == GCD(Abs(n), d)
             s == Scale(Abs(n) \div g, d \div g, e)
         IN  [k |-> kind, n |-> (IF n < 0 THEN -s[1] ELSE s[1]), d |-> s[2], e |-> s[3]]

Fin(n, d, e) == Norm("fin", n, d, e)
Amt(n, d, e) == Norm("ln", n, d, e)
Zero == Fin(0, 1, 0)
One == Fin(1, 1, 0)
AmtZero == Amt(1, 1, 0)

Sign(x) == IF x.k = "inf" THEN 1 ELSE IF x.k = "-inf" THEN -1
           ELSE IF x.n > 0 THEN 1 ELSE IF x.n < 0 THEN -1 ELSE 0

\* The f64 exponent range applied to an exact finite result.
Range(x) ==
    IF x.n = 0 THEN x
    ELSE IF x.e >= F64_MAX_EXP THEN (IF x.n > 0 THEN PosInf ELSE NegInf)
    ELSE IF x.e < F64_MIN_SUBNORMAL_EXP - 1
            \/ (x.e = F64_MIN_SUBNORMAL_EXP - 1 /\ Abs(x.n) = x.d) THEN Zero
    ELSE x

\* Finite x < y (both of the same kind, "fin" or "ln").
FinLt(x, y) ==
    LET sx == Sign(x)
        sy == Sign(y)
        \* |x| < |y| for nonzero x, y
        MagLt(a, b) == \/ a.e < b.e
                       \/ a.e = b.e /\ Abs(a.n) * b.d < Abs(b.n) * a.d
    IN  IF sx # sy THEN sx < sy
        ELSE IF sx = 0 THEN FALSE
        ELSE IF sx > 0 THEN MagLt(x, y) ELSE MagLt(y, x)

\* f64 `<`: false when either side is NaN.
Lt(x, y) ==
    IF x.k \in {"nan", "unrep"} \/ y.k \in {"nan", "unrep"} THEN FALSE
    ELSE IF x.k = "inf" \/ y.k = "-inf" THEN FALSE
    ELSE IF x.k = "-inf" \/ y.k = "inf" THEN TRUE
    ELSE FinLt(x, y)

\* f64 `==`: false when either side is NaN.
Eq(x, y) == x.k \notin {"nan", "unrep"} /\ y.k \notin {"nan", "unrep"} /\ x = y

\* f64 `>=`
Geq(x, y) == Lt(y, x) \/ Eq(x, y)

\* How the special values combine in a sum (plain numbers and amounts alike).
SpecialSum(x, y) ==
    IF x.k = "unrep" \/ y.k = "unrep" THEN Unrep
    ELSE IF x.k = "nan" \/ y.k = "nan" THEN NaN
    ELSE IF x.k = "inf" THEN (IF y.k = "-inf" THEN NaN ELSE PosInf)
    ELSE IF x.k = "-inf" THEN (IF y.k = "inf" THEN NaN ELSE NegInf)
    ELSE y

(* plain numbers *)
PNeg(x) == IF x.k = "inf" THEN NegInf ELSE IF x.k = "-inf" THEN PosInf
           ELSE IF x.k = "fin" THEN [x EXCEPT !.n = -x.n] ELSE x

PAdd(x, y) ==
    IF x.k # "fin" \/ y.k # "fin" THEN SpecialSum(x, y)
    ELSE IF x.n = 0 THEN y
    ELSE IF y.n = 0 THEN x
    ELSE LET hi == IF x.e >= y.e THEN x ELSE y
             lo == IF x.e >= y.e THEN y ELSE x
             g  == hi.e - lo.e
         IN  IF g >= F64_MANTISSA_DIGITS + 2 THEN hi
             ELSE IF g <= ExactGap
             THEN Range(Fin(hi.n * lo.d * (2 ^ g) + lo.n * hi.d, hi.d * lo.d, lo.e))
             ELSE Unrep

PSub(x, y) == PAdd(x, PNeg(y))

PDiv(x, y) ==
    IF x.k = "unrep" \/ y.k = "unrep" THEN Unrep
    ELSE IF x.k = "nan" \/ y.k = "nan" THEN NaN
    ELSE IF x.k # "fin"
    THEN IF y.k # "fin" THEN NaN
         ELSE IF Sign(x) * (IF y.n < 0 THEN -1 ELSE 1) > 0 THEN PosInf ELSE NegInf
    ELSE IF y.k # "fin" THEN Zero
    ELSE IF y.n = 0
    THEN IF x.n = 0 THEN NaN ELSE IF x.n > 0 THEN PosInf ELSE NegInf
    ELSE Range(Fin(x.n * y.d * (IF y.n < 0 THEN -1 ELSE 1), x.d * Abs(y.n), x.e - y.e))

(* amounts *)
ANeg(x) == IF x.k = "inf" THEN NegInf ELSE IF x.k = "-inf" THEN PosInf
           ELSE IF x.k = "ln" THEN Amt(x.d, x.n, -x.e) ELSE x

AAdd(x, y) ==
    IF x.k # "ln" \/ y.k # "ln" THEN SpecialSum(x, y)
    ELSE Amt(x.n * y.n, x.d * y.d, x.e + y.e)

ASub(x, y) == AAdd(x, ANeg(y))

\* `b * x.ln()` for b > 0
Ln(x) ==
    IF x.k \in {"nan", "unrep", "inf"} THEN x
    ELSE IF x.k = "-inf" \/ x.n < 0 THEN NaN
    ELSE IF x.n = 0 THEN NegInf
    ELSE [x EXCEPT !.k = "ln"]

\* `E.pow(q / b)`
Exp(q) ==
    IF q.k \in {"nan", "unrep", "inf"} THEN q
    ELSE IF q.k = "-inf" THEN Zero
    ELSE Range([q EXCEPT !.k = "fin"])

(* ---------------------------- MarketMaker ------------------------------ *)
RECURSIVE SumFrom(_, _, _)
SumFrom(q, i, acc) ==
    IF i = num_outcomes THEN acc ELSE SumFrom(q, i + 1, PAdd(acc, Exp(q[i])))

sum_of_exp(q) == SumFrom(q, 0, Zero)

cost_fn(q) == Ln(sum_of_exp(q))

cost_to_trade(q, outcome_id, shares) ==
    LET new_market_maker == [q EXCEPT ![outcome_id] = AAdd(@, shares)]
    IN  ASub(cost_fn(new_market_maker), cost_fn(q))

price(q, outcome_id) == PDiv(Exp(q[outcome_id]), sum_of_exp(q))

\* Line 43, for the current_price of line 42.
SharesFromPrices(new_price, current_price) ==
    ASub(Ln(PDiv(new_price, current_price)),
         Ln(PDiv(PSub(One, new_price), PSub(One, current_price))))

shares_to_set_price(q, outcome_id, new_price) ==
    SharesFromPrices(new_price, price(q, outcome_id))

MarketMakerTradeSkip(q, outcome_id, shares) == q

MarketMakerTrade(q, outcome_id, shares) ==
    [q EXCEPT ![outcome_id] = AAdd(@, shares)]

(* ------------------------------- Market -------------------------------- *)
NewPortfolio == [outcome_shares |-> [i \in Outcomes |-> AmtZero], collateral |-> AmtZero]

PortfoliosAfterDepositOverwrite(pf, address, amount) ==
    [a \in DOMAIN pf \cup {address} |->
        IF a = address THEN [NewPortfolio EXCEPT !.collateral = AAdd(@, amount)]
        ELSE pf[a]]

PortfoliosAfterDeposit(pf, address, amount) ==
    [a \in DOMAIN pf \cup {address} |->
        IF a = address
        THEN LET portfolio == IF address \in DOMAIN pf THEN pf[address] ELSE NewPortfolio
             IN  [portfolio EXCEPT !.collateral = AAdd(@, amount)]
        ELSE pf[a]]

AffordableAlways(collateral, cost) == TRUE

Affordable(collateral, cost) == Geq(collateral, cost)

PortfolioAfterTradeNoCharge(portfolio, outcome_id, shares, cost) ==
    [portfolio EXCEPT !.outcome_shares[outcome_id] = AAdd(@, shares)]

PortfolioAfterTrade(portfolio, outcome_id, shares, cost) ==
    [portfolio EXCEPT !.outcome_shares[outcome_id] = AAdd(@, shares),
                      !.collateral = ASub(@, cost)]

\* Lines 84-90 of Market::trade, once the portfolio is found and the cost known.
\* The result is the shares and portfolios after the call, the branch taken
\* (path) and the amounts the call computed (calc).
TradeAtCost(q, pf, address, outcome_id, shares, cost, calc) ==
    IF Affordable(pf[address].collateral, cost)
    THEN [q  |-> MarketMakerTrade(q, outcome_id, shares),
          pf |-> [pf EXCEPT ![address] = PortfolioAfterTrade(@, outcome_id, shares, cost)],
          path |-> "executed", calc |-> calc \cup {cost}]
    ELSE [q |-> q, pf |-> pf, path |-> "declined", calc |-> calc \cup {cost}]

\* Market::trade as a function of the market: the shares and portfolios after it.
MarketTradeFrom(q, pf, address, outcome_id, shares, calc) ==
    IF address \notin DOMAIN pf THEN [q |-> q, pf |-> pf, path |-> "absent", calc |-> calc]
    ELSE TradeAtCost(q, pf, address, outcome_id, shares,
                     cost_to_trade(q, outcome_id, shares), calc)

MarketTrade(q, pf, address, outcome_id, shares) ==
    MarketTradeFrom(q, pf, address, outcome_id, shares, {})

\* The share count buy_with_max_price hands to trade, given shares_to_max.
Capped(shares_to_max, shares) ==
    IF Lt(shares_to_max, shares) THEN shares_to_max ELSE shares

BuyAmount(q, outcome_id, shares, max_price) ==
    Capped(shares_to_set_price(q, outcome_id, max_price), shares)

BuyAtCap(q, pf, address, outcome_id, shares, shares_to_max) ==
    MarketTradeFrom(q, pf, address, outcome_id, Capped(shares_to_max, shares),
                    {shares_to_max})

MarketBuyWithMaxPrice(q, pf, address, outcome_id, shares, max_price) ==
    IF Lt(shares, AmtZero) THEN [q |-> q, pf |-> pf, path |-> "negative", calc |-> {}]
    ELSE BuyAtCap(q, pf, address, outcome_id, shares,
                  shares_to_set_price(q, outcome_id, max_price))

(* ------------------------------ inputs --------------------------------- *)
\* Deposits: b*ln 2 and the negative -b*ln 2.
Amounts == {Amt(2, 1, 0), Amt(1, 2, 0)}
\* Share counts of a trade: b*ln 2, a large sale and a large purchase.
TradeShares == {Amt(2, 1, 0), Amt(1, 1, -1100), Amt(1, 1, 1200)}
\* Share counts of a capped buy: one negative, one small, one large.
BuyShares == {Amt(1, 2, 0), Amt(2, 1, 0), Amt(1, 1, 1200)}
\* Price caps: 0.6 inside (0,1); 0 and 1 outside it.
MaxPrices == {Fin(3, 5, 0), Zero, One}

Small(x) == Abs(x.n) <= MaxMant /\ x.d <= MaxMant
SmallState(q, pf) ==
    /\ \A i \in Outcomes : Small(q[i])
    /\ \A a \in DOMAIN pf :
          /\ Small(pf[a].collateral)
          /\ \A i \in Outcomes : Small(pf[a].outcome_shares[i])

(* ------------------------------ actions -------------------------------- *)
\* deposited: the sum of the amounts passed to add_collateral so far.
\* last: the operation called last and the branch it took.
Init ==
    /\ outstanding_shares = [i \in Outcomes |-> AmtZero]
    /\ portfolios = [a \in {} |-> NewPortfolio]
    /\ deposited = AmtZero
    /\ last = [op |-> "new", path |-> "new"]
    /\ steps = 0

AddCollateral(address, amount) ==
    /\ steps < MaxSteps
    /\ portfolios' = PortfoliosAfterDeposit(portfolios, address, amount)
    /\ SmallState(outstanding_shares, portfolios')
    /\ deposited' = AAdd(deposited, amount)
    /\ last' = [op |-> "add_collateral",
                path |-> IF address \in DOMAIN portfolios THEN "existing" ELSE "created"]
    /\ steps' = steps + 1
    /\ UNCHANGED outstanding_shares

Trade(address, outcome_id, shares) ==
    /\ steps < MaxSteps
    /\ \E r \in {MarketTrade(outstanding_shares, portfolios, address, outcome_id, shares)} :
          /\ \A c \in r.calc : c.k # "unrep"
          /\ SmallState(r.q, r.pf)
          /\ outstanding_shares' = r.q
          /\ portfolios' = r.pf
          /\ last' = [op |-> "trade", path |-> r.path]
    /\ steps' = steps + 1
    /\ UNCHANGED deposited

BuyWithMaxPrice(address, outcome_id, shares, max_price) ==
    /\ steps < MaxSteps
    /\ \E r \in {MarketBuyWithMaxPrice(outstanding_shares, portfolios, address,
                                       outcome_id, shares, max_price)} :
          /\ \A c \in r.calc : c.k # "unrep"
          /\ SmallState(r.q, r.pf)
          /\ outstanding_shares' = r.q
          /\ portfolios' = r.pf
          /\ last' = [op |-> "buy_with_max_price", path |-> r.path]
    /\ steps' = steps + 1
    /\ UNCHANGED deposited

Next ==
    \/ \E address \in Address, amount \in Amounts : AddCollateral(address, amount)
    \/ \E address \in Address, outcome_id \in Outcomes, shares \in TradeShares :
          Trade(address, outcome_id, shares)
    \/ \E address \in Address, outcome_id \in Outcomes, shares \in BuyShares,
          max_price \in MaxPrices :
          BuyWithMaxPrice(address, outcome_id, shares, max_price)

Spec == Init /\ [][Next]_vars

(* ------------------------------ claims --------------------------------- *)
\* f64 `<=`
Leq(x, y) == Geq(y, x)

RECURSIVE SumOver(_, _, _)
\* The f64 sum of f[a] over the addresses a of S, added to acc.
SumOver(f, S, acc) ==
    IF S = {} THEN acc
    ELSE LET a == CHOOSE x \in S : TRUE IN SumOver(f, S \ {a}, AAdd(acc, f[a]))

SumHoldings(i) ==
    SumOver([a \in DOMAIN portfolios |-> portfolios[a].outcome_shares[i]],
            DOMAIN portfolios, AmtZero)

TotalCollateral ==
    SumOver([a \in DOMAIN portfolios |-> portfolios[a].collateral],
            DOMAIN portfolios, AmtZero)

RECURSIVE SumPrices(_, _, _)
SumPrices(q, i, acc) ==
    IF i = num_outcomes THEN acc ELSE SumPrices(q, i + 1, PAdd(acc, price(q, i)))

Tolerance == Fin(1, 10000, 0)

WithinEpsilon(x, y) ==
    LET diff == PSub(x, y) IN Lt(PNeg(Tolerance), diff) /\ Lt(diff, Tolerance)

SameMarket == outstanding_shares' = outstanding_shares /\ portfolios' = portfolios

\* C1: a trade for an address with no portfolio, or whose collateral is less
\* than the cost of the trade, changes no portfolio, not the set of portfolios,
\* and not the outstanding shares.
C1_DeclinedTradeIsNoOp ==
    [][\A address \in Address, outcome_id \in Outcomes, shares \in TradeShares :
          (/\ last'.op = "trade"
           /\ Trade(address, outcome_id, shares)
           /\ \/ address \notin DOMAIN portfolios
              \/ Lt(portfolios[address].collateral,
                    cost_to_trade(outstanding_shares, outcome_id, shares)))
          => SameMarket]_vars

\* A trade has just been declined for want of collateral.
C1_Witness == last = [op |-> "trade", path |-> "declined"]

\* C2: a trade for an address whose collateral is at least the cost (taken on
\* the shares before the call) lowers that collateral by the cost, raises the
\* address's holding of the outcome and the outstanding shares of the outcome
\* by the traded count, and changes nothing else.
C2_AffordedTradeUpdatesAllThree ==
    [][\A address \in Address, outcome_id \in Outcomes, shares \in TradeShares :
          (/\ last'.op = "trade"
           /\ Trade(address, outcome_id, shares)
           /\ address \in DOMAIN portfolios
           /\ Geq(portfolios[address].collateral,
                  cost_to_trade(outstanding_shares, outcome_id, shares)))
          => /\ DOMAIN portfolios' = DOMAIN portfolios
             /\ portfolios'[address].collateral =
                   ASub(portfolios[address].collateral,
                        cost_to_trade(outstanding_shares, outcome_id, shares))
             /\ portfolios'[address].outcome_shares =
                   [portfolios[address].outcome_shares EXCEPT
                       ![outcome_id] = AAdd(@, shares)]
             /\ outstanding_shares' =
                   [outstanding_shares EXCEPT ![outcome_id] = AAdd(@, shares)]
             /\ \A other \in DOMAIN portfolios \ {address} :
                   portfolios'[other] = portfolios[other]]_vars

\* A trade has just been executed while another participant holds shares too.
C2_Witness ==
    /\ last = [op |-> "trade", path |-> "executed"]
    /\ \A a \in Address :
          a \in DOMAIN portfolios
          /\ \E i \in Outcomes : portfolios[a].outcome_shares[i] # AmtZero

C4_CollateralNeverNegative ==
    \A a \in DOMAIN portfolios : Geq(portfolios[a].collateral, AmtZero)

\* C5: when buy_with_max_price, called with shares >= 0 and a cap inside
\* (0,1), executes its trade, the price of the outcome afterwards is at most
\* the cap.
C5_PriceAtMostCap ==
    [][\A address \in Address, outcome_id \in Outcomes, shares \in BuyShares,
          max_price \in MaxPrices :
          (/\ last' = [op |-> "buy_with_max_price", path |-> "executed"]
           /\ Lt(Zero, max_price) /\ Lt(max_price, One)
           /\ Geq(shares, AmtZero)
           /\ BuyWithMaxPrice(address, outcome_id, shares, max_price))
          => Leq(price(outstanding_shares', outcome_id), max_price)]_vars

\* C6 (for caps inside (0,1) and a finite shares_to_max): buy_with_max_price
\* changes nothing when the requested count is negative, and otherwise changes
\* the address's holding of the outcome, and the outstanding shares of the
\* outcome, by at least 0 and at most the requested count.
C6_BuyOnlyBuys ==
    [][\A address \in Address, outcome_id \in Outcomes, shares \in BuyShares,
          max_price \in MaxPrices :
          (/\ last'.op = "buy_with_max_price"
           /\ Lt(Zero, max_price) /\ Lt(max_price, One)
           /\ shares_to_set_price(outstanding_shares, outcome_id, max_price).k = "ln"
           /\ BuyWithMaxPrice(address, outcome_id, shares, max_price))
          => IF Lt(shares, AmtZero) THEN SameMarket
             ELSE /\ Geq(outstanding_shares'[outcome_id], outstanding_shares[outcome_id])
                  /\ Geq(AAdd(outstanding_shares[outcome_id], shares),
                         outstanding_shares'[outcome_id])
                  /\ address \in DOMAIN portfolios =>
                        /\ Geq(portfolios'[address].outcome_shares[outcome_id],
                               portfolios[address].outcome_shares[outcome_id])
                        /\ Geq(AAdd(portfolios[address].outcome_shares[outcome_id],
                                    shares),
                               portfolios'[address].outcome_shares[outcome_id])]_vars

\* C7: add_collateral gives an address without a portfolio one with zero
\* shares of every outcome and zero collateral, then adds the amount to the
\* address's collateral; it changes neither that address's shares, nor another
\* portfolio, nor the outstanding shares; and no step removes a portfolio.
C7_DepositFrame ==
    [][/\ DOMAIN portfolios \subseteq DOMAIN portfolios'
       /\ \A address \in Address, amount \in Amounts :
             (last'.op = "add_collateral" /\ AddCollateral(address, amount))
             => LET before == IF address \in DOMAIN portfolios
                              THEN portfolios[address]
                              ELSE [outcome_shares |-> [i \in 0 .. (num_outcomes - 1) |->
                                                           Amt(1, 1, 0)],
                                    collateral |-> Amt(1, 1, 0)]
                IN  /\ DOMAIN portfolios' = DOMAIN portfolios \cup {address}
                    /\ portfolios'[address].collateral = AAdd(before.collateral, amount)
                    /\ portfolios'[address].outcome_shares = before.outcome_shares
                    /\ \A other \in DOMAIN portfolios \ {address} :
                          portfolios'[other] = portfolios[other]
                    /\ outstanding_shares' = outstanding_shares]_vars

\* A deposit has just been made to an existing portfolio that holds shares.
C7_Witness ==
    /\ last = [op |-> "add_collateral", path |-> "existing"]
    /\ \E a \in DOMAIN portfolios, i \in Outcomes :
          /\ portfolios[a].outcome_shares[i] # AmtZero
          /\ portfolios[a].collateral # deposited

\* C8 (the part on buy_with_max_price): called with a cap outside (0,1),
\* buy_with_max_price changes neither a portfolio nor the outstanding shares.
C8_BadCapRejected ==
    [][\A address \in Address, outcome_id \in Outcomes, shares \in BuyShares,
          max_price \in MaxPrices :
          (/\ last'.op = "buy_with_max_price"
           /\ ~(Lt(Zero, max_price) /\ Lt(max_price, One))
           /\ BuyWithMaxPrice(address, outcome_id, shares, max_price))
          => SameMarket]_vars

\* C9: whenever the outstanding shares are all finite, the prices of the
\* outcomes sum to 1 within 1e-4 and each price is strictly between 0 and 1.
C9_PricesSumToOne ==
    (\A i \in Outcomes : outstanding_shares[i].k = "ln")
    => /\ WithinEpsilon(SumPrices(outstanding_shares, 0, Zero), One)
       /\ \A i \in Outcomes :
             /\ Lt(Zero, price(outstanding_shares, i))
             /\ Lt(price(outstanding_shares, i), One)

\* C10: the amount deposited less the collateral of all participants equals
\* cost_fn of the outstanding shares less cost_fn of the all-zero shares.
C10_NetChargeIsCostDifference ==
    Eq(ASub(deposited, TotalCollateral),
       ASub(cost_fn(outstanding_shares), cost_fn([i \in Outcomes |-> AmtZero])))

====
